---- MODULE Spec2Model ----
(***************************************************************************)
(* Model of the `spatial` crate: Vector<T>, Quaternion<T> and Pose<T, R>.  *)
(*                                                                         *)
(* The crate is generic over its scalar type T.  The model instantiates T  *)
(* twice:                                                                  *)
(*   - at an exact field (rationals n/d in lowest terms, written <<n, d>>),*)
(*     for the operations that only need Add/Sub/Mul/Neg;                  *)
(*   - at a small binary floating-point format (every operation is the     *)
(*     exact one followed by round-to-nearest-even), for the operations    *)
(*     bound by num::Float (norm, normalized_checked, from_angle_axis,     *)
(*     slerp).                                                             *)
(* All operations of the crate are pure; the state of the model is the     *)
(* last call: the operation, its arguments and its result.                 *)
(***************************************************************************)
EXTENDS Integers, Sequences, FiniteSets

VARIABLES op, args, out

vars == <<op, args, out>>

(***************************************************************************)
(* Exact scalars: T = rationals.  <<n, d>> with d > 0 and gcd(|n|, d) = 1. *)
(***************************************************************************)
Abs(n) == IF n < 0 THEN -n ELSE n

RECURSIVE GCD(_, _)
GCD(a, b) == IF b = 0 THEN a ELSE GCD(b, a % b)

Ratio(n, d) ==
    LET s == IF d < 0 THEN -1 ELSE 1
        g == GCD(Abs(n), Abs(d))
    IN  <<(s * n) \div g, (s * d) \div g>>

Zero == <<0, 1>>

One == <<1, 1>>

\* Sums are formed over the least common denominator.
Add(a, b) ==
    LET g == GCD(a[2], b[2])
    IN  Ratio(a[1] * (b[2] \div g) + b[1] * (a[2] \div g), a[2] * (b[2] \div g))

Sub(a, b) ==
    LET g == GCD(a[2], b[2])
    IN  Ratio(a[1] * (b[2] \div g) - b[1] * (a[2] \div g), a[2] * (b[2] \div g))

Mul(a, b) == Ratio(a[1] * b[1], a[2] * b[2])

Neg(a) == <<-a[1], a[2]>>

Lt(a, b) == a[1] * b[2] < b[1] * a[2]

Le(a, b) == a[1] * b[2] <= b[1] * a[2]

(***************************************************************************)
(* Vector<T>                                                               *)
(***************************************************************************)
Vector_new(x, y, z) == [x |-> x, y |-> y, z |-> z]

Vector_zero == Vector_new(Zero, Zero, Zero)

Vector_unit_x == Vector_new(One, Zero, Zero)

Vector_unit_y == Vector_new(Zero, One, Zero)

Vector_unit_z == Vector_new(Zero, Zero, One)

Vector_add(self, other) ==
    [x |-> Add(self.x, other.x), y |-> Add(self.y, other.y), z |-> Add(self.z, other.z)]

Vector_neg(self) == [x |-> Neg(self.x), y |-> Neg(self.y), z |-> Neg(self.z)]

Vector_mul(self, scalar) ==
    [x |-> Mul(self.x, scalar), y |-> Mul(self.y, scalar), z |-> Mul(self.z, scalar)]

\* Vector_cross with the sign of the last term of z wrong.
Vector_cross_SignSlip(self, other) ==
    [x |-> Sub(Mul(self.y, other.z), Mul(self.z, other.y)),
     y |-> Sub(Mul(self.z, other.x), Mul(self.x, other.z)),
     z |-> Add(Mul(self.x, other.y), Mul(self.y, other.x))]

Vector_cross(self, other) ==
    [x |-> Sub(Mul(self.y, other.z), Mul(self.z, other.y)),
     y |-> Sub(Mul(self.z, other.x), Mul(self.x, other.z)),
     z |-> Sub(Mul(self.x, other.y), Mul(self.y, other.x))]

(***************************************************************************)
(* Quaternion<T>                                                           *)
(***************************************************************************)
Quaternion_new(w, i, j, k) == [w |-> w, i |-> i, j |-> j, k |-> k]

Quaternion_identity == Quaternion_new(One, Zero, Zero, Zero)

\* Quaternion_multiply with the sign of the last term of i wrong.
Quaternion_multiply_SignSlip(self, other) ==
    LET w == Sub(Sub(Sub(Mul(self.w, other.w), Mul(self.i, other.i)),
                     Mul(self.j, other.j)), Mul(self.k, other.k))
        i == Add(Add(Add(Mul(self.w, other.i), Mul(self.i, other.w)),
                     Mul(self.j, other.k)), Mul(self.k, other.j))
        j == Add(Add(Sub(Mul(self.w, other.j), Mul(self.i, other.k)),
                     Mul(self.j, other.w)), Mul(self.k, other.i))
        k == Add(Sub(Add(Mul(self.w, other.k), Mul(self.i, other.j)),
                     Mul(self.j, other.i)), Mul(self.k, other.w))
    IN  Quaternion_new(w, i, j, k)

\* Quaternion_multiply with the k * k term of w left out.
Quaternion_multiply_DropsTerm(self, other) ==
    LET w == Sub(Sub(Mul(self.w, other.w), Mul(self.i, other.i)), Mul(self.j, other.j))
        i == Sub(Add(Add(Mul(self.w, other.i), Mul(self.i, other.w)),
                     Mul(self.j, other.k)), Mul(self.k, other.j))
        j == Add(Add(Sub(Mul(self.w, other.j), Mul(self.i, other.k)),
                     Mul(self.j, other.w)), Mul(self.k, other.i))
        k == Add(Sub(Add(Mul(self.w, other.k), Mul(self.i, other.j)),
                     Mul(self.j, other.i)), Mul(self.k, other.w))
    IN  Quaternion_new(w, i, j, k)

Quaternion_multiply(self, other) ==
    LET w == Sub(Sub(Sub(Mul(self.w, other.w), Mul(self.i, other.i)),
                     Mul(self.j, other.j)), Mul(self.k, other.k))
        i == Sub(Add(Add(Mul(self.w, other.i), Mul(self.i, other.w)),
                     Mul(self.j, other.k)), Mul(self.k, other.j))
        j == Add(Add(Sub(Mul(self.w, other.j), Mul(self.i, other.k)),
                     Mul(self.j, other.w)), Mul(self.k, other.i))
        k == Add(Sub(Add(Mul(self.w, other.k), Mul(self.i, other.j)),
                     Mul(self.j, other.i)), Mul(self.k, other.w))
    IN  Quaternion_new(w, i, j, k)

\* Quaternion_rotate with the sign of the last term of prep_x wrong.
Quaternion_rotate_SignSlip(self, vector) ==
    LET w == self.w
        i == self.i
        j == self.j
        k == self.k
        x == vector.x
        y == vector.y
        z == vector.z
        prep_x == Add(Add(Add(Mul(Mul(i, j), y), Mul(Mul(i, k), z)), Mul(Mul(j, w), z)),
                      Mul(Mul(k, w), y))
        result_x == Add(Add(prep_x, prep_x),
                        Mul(Add(Sub(Sub(Mul(i, i), Mul(j, j)), Mul(k, k)), Mul(w, w)), x))
        prep_y == Add(Add(Sub(Mul(Mul(i, j), x), Mul(Mul(i, w), z)), Mul(Mul(j, k), z)),
                      Mul(Mul(k, w), x))
        result_y == Add(Add(prep_y, prep_y),
                        Mul(Add(Sub(Sub(Mul(j, j), Mul(i, i)), Mul(k, k)), Mul(w, w)), y))
        prep_z == Sub(Add(Add(Mul(Mul(i, k), x), Mul(Mul(i, w), y)), Mul(Mul(j, k), y)),
                      Mul(Mul(j, w), x))
        result_z == Add(Add(prep_z, prep_z),
                        Mul(Add(Sub(Sub(Mul(w, w), Mul(i, i)), Mul(j, j)), Mul(k, k)), z))
    IN  Vector_new(result_x, result_y, result_z)

Quaternion_rotate(self, vector) ==
    LET w == self.w
        i == self.i
        j == self.j
        k == self.k
        x == vector.x
        y == vector.y
        z == vector.z
        prep_x == Sub(Add(Add(Mul(Mul(i, j), y), Mul(Mul(i, k), z)), Mul(Mul(j, w), z)),
                      Mul(Mul(k, w), y))
        result_x == Add(Add(prep_x, prep_x),
                        Mul(Add(Sub(Sub(Mul(i, i), Mul(j, j)), Mul(k, k)), Mul(w, w)), x))
        prep_y == Add(Add(Sub(Mul(Mul(i, j), x), Mul(Mul(i, w), z)), Mul(Mul(j, k), z)),
                      Mul(Mul(k, w), x))
        result_y == Add(Add(prep_y, prep_y),
                        Mul(Add(Sub(Sub(Mul(j, j), Mul(i, i)), Mul(k, k)), Mul(w, w)), y))
        prep_z == Sub(Add(Add(Mul(Mul(i, k), x), Mul(Mul(i, w), y)), Mul(Mul(j, k), y)),
                      Mul(Mul(j, w), x))
        result_z == Add(Add(prep_z, prep_z),
                        Mul(Add(Sub(Sub(Mul(w, w), Mul(i, i)), Mul(j, j)), Mul(k, k)), z))
    IN  Vector_new(result_x, result_y, result_z)

\* Quaternion_inverse that leaves k as it is.
Quaternion_inverse_KeepsK(self) ==
    [w |-> self.w, i |-> Neg(self.i), j |-> Neg(self.j), k |-> self.k]

Quaternion_inverse(self) ==
    [w |-> self.w, i |-> Neg(self.i), j |-> Neg(self.j), k |-> Neg(self.k)]

Quaternion_mul(self, other) == Quaternion_multiply(self, other)

(***************************************************************************)
(* Float scalars: T = a binary floating-point format with Precision        *)
(* significand bits and gradual underflow, its smallest positive value     *)
(* being 2^MinExp.  A value is the rational it denotes; every operation is *)
(* the exact one rounded to the nearest value of the format, ties to even  *)
(* (IEEE 754).  The exponent range is wide enough above: no call of the    *)
(* model overflows.                                                        *)
(***************************************************************************)
Precision == 4

MinExp == -10

Div(a, b) == Ratio(a[1] * b[2], a[2] * b[1])

RECURSIVE Pow2(_)
Pow2(e) == IF e = 0 THEN One
           ELSE IF e > 0 THEN Mul(<<2, 1>>, Pow2(e - 1))
           ELSE Div(Pow2(e + 1), <<2, 1>>)

\* The exponent of the quantum of a >= 0: the least e >= MinExp with
\* a < 2^(Precision + e).
RECURSIVE QuantumExp(_, _)
QuantumExp(a, e) == IF Lt(a, Pow2(Precision + e)) THEN e ELSE QuantumExp(a, e + 1)

\* The integer nearest to t >= 0, ties to even.
RoundInt(t) ==
    LET f == t[1] \div t[2]
        r == 2 * (t[1] % t[2])
    IN  IF r < t[2] THEN f
        ELSE IF r > t[2] THEN f + 1
        ELSE IF f % 2 = 0 THEN f ELSE f + 1

Round(v) ==
    IF v = Zero THEN Zero
    ELSE LET a == <<Abs(v[1]), v[2]>>
             q == Pow2(QuantumExp(a, MinExp))
             r == Mul(<<RoundInt(Div(a, q)), 1>>, q)
         IN  IF v[1] < 0 THEN Neg(r) ELSE r

FAdd(a, b) == Round(Add(a, b))

FSub(a, b) == Round(Sub(a, b))

FMul(a, b) == Round(Mul(a, b))

FDiv(a, b) == Round(Div(a, b))

\* The exponent of the quantum of sqrt(a): the least e >= MinExp with
\* a < (2^(Precision + e))^2.
RECURSIVE SqrtQuantumExp(_, _)
SqrtQuantumExp(a, e) ==
    IF Lt(a, Mul(Pow2(Precision + e), Pow2(Precision + e))) THEN e
    ELSE SqrtQuantumExp(a, e + 1)

\* sqrt, correctly rounded: m * q <= sqrt(a) < (m + 1) * q, and the nearer of the
\* two is the result.
FSqrt(a) ==
    IF a = Zero THEN Zero
    ELSE LET q == Pow2(SqrtQuantumExp(a, MinExp))
             Sq(m) == Mul(Mul(<<m, 1>>, q), Mul(<<m, 1>>, q))
             m == CHOOSE n \in 0..(2 ^ Precision - 1) : Le(Sq(n), a) /\ Lt(a, Sq(n + 1))
             mid == Mul(Ratio(2 * m + 1, 2), q)
             up == IF Mul(mid, mid) = a THEN m % 2 = 1 ELSE Lt(Mul(mid, mid), a)
         IN  Mul(<<IF up THEN m + 1 ELSE m, 1>>, q)

Epsilon == Pow2(1 - Precision)

\* sin, cos and acos of the format (the correctly rounded values), on the
\* arguments the calls of the model reach.
Sin(x) ==
    CASE x = <<-1, 1>> -> <<-13, 16>>   \* sin(-1) = -0.841471
      [] x = <<-1, 2>> -> <<-15, 32>>   \* sin(-1/2) = -0.479426
      [] x = <<0, 1>> -> <<0, 1>>
      [] x = <<1, 4>> -> <<1, 4>>       \* sin(1/4) = 0.247404
      [] x = <<13, 32>> -> <<13, 32>>   \* sin(13/32) = 0.395167
      [] x = <<1, 2>> -> <<15, 32>>     \* sin(1/2) = 0.479426
      [] x = <<3, 4>> -> <<11, 16>>     \* sin(3/4) = 0.681639
      [] x = <<13, 16>> -> <<3, 4>>     \* sin(13/16) = 0.726009
      [] x = <<1, 1>> -> <<13, 16>>     \* sin(1) = 0.841471
      [] x = <<5, 4>> -> <<15, 16>>     \* sin(5/4) = 0.948985
      [] x = <<3, 2>> -> <<1, 1>>       \* sin(3/2) = 0.997495
      [] x = <<13, 8>> -> <<1, 1>>      \* sin(13/8) = 0.998531

Cos(x) ==
    CASE x = <<-1, 1>> -> <<9, 16>>     \* cos(-1) = 0.540302
      [] x = <<-1, 2>> -> <<7, 8>>      \* cos(-1/2) = 0.877583
      [] x = <<0, 1>> -> <<1, 1>>
      [] x = <<1, 4>> -> <<1, 1>>       \* cos(1/4) = 0.968912
      [] x = <<1, 2>> -> <<7, 8>>       \* cos(1/2) = 0.877583
      [] x = <<3, 4>> -> <<3, 4>>       \* cos(3/4) = 0.731689
      [] x = <<1, 1>> -> <<9, 16>>      \* cos(1) = 0.540302
      [] x = <<3, 2>> -> <<9, 128>>     \* cos(3/2) = 0.070737

Acos(x) ==
    CASE x = <<0, 1>> -> <<13, 8>>      \* acos(0) = 1.570796
      [] x = <<1, 2>> -> <<1, 1>>       \* acos(1/2) = 1.047198

FMin(a, b) == IF Lt(b, a) THEN b ELSE a

(***************************************************************************)
(* Vector<T>, T: Float                                                     *)
(***************************************************************************)
None == [is_some |-> FALSE]

Some(value) == [is_some |-> TRUE, value |-> value]

Vector_div(self, scalar) ==
    [x |-> FDiv(self.x, scalar), y |-> FDiv(self.y, scalar), z |-> FDiv(self.z, scalar)]

Vector_norm(self) ==
    FSqrt(FAdd(FAdd(FMul(self.x, self.x), FMul(self.y, self.y)), FMul(self.z, self.z)))

\* Vector_normalized_checked that refuses only a norm of zero.
Vector_normalized_checked_ZeroOnly(self) ==
    LET norm == Vector_norm(self)
    IN  IF norm = Zero THEN None ELSE Some(Vector_div(self, norm))

Vector_normalized_checked(self) ==
    LET norm == Vector_norm(self)
    IN  IF Lt(norm, Epsilon) THEN None ELSE Some(Vector_div(self, norm))

(***************************************************************************)
(* Quaternion<T>, T: Float                                                 *)
(***************************************************************************)
Quaternion_dot(self, other) ==
    FAdd(FAdd(FAdd(FMul(self.w, other.w), FMul(self.i, other.i)), FMul(self.j, other.j)),
         FMul(self.k, other.k))

Quaternion_add(self, other) ==
    [w |-> FAdd(self.w, other.w), i |-> FAdd(self.i, other.i),
     j |-> FAdd(self.j, other.j), k |-> FAdd(self.k, other.k)]

Quaternion_neg(self) ==
    [w |-> Neg(self.w), i |-> Neg(self.i), j |-> Neg(self.j), k |-> Neg(self.k)]

Quaternion_scale(self, other) ==
    [w |-> FMul(self.w, other), i |-> FMul(self.i, other),
     j |-> FMul(self.j, other), k |-> FMul(self.k, other)]

\* Quaternion_from_angle_axis that takes a degenerate axis for the zero vector
\* instead of returning identity().
Quaternion_from_angle_axis_ZeroAxis(angle, axis) ==
    LET checked == Vector_normalized_checked(axis)
        normalized == IF checked.is_some THEN checked.value ELSE Vector_zero
        half == FDiv(angle, FAdd(One, One))
        cos == Cos(half)
        sin == Sin(half)
    IN  Quaternion_new(cos, FMul(normalized.x, sin), FMul(normalized.y, sin),
                       FMul(normalized.z, sin))

Quaternion_from_angle_axis(angle, axis) ==
    LET checked == Vector_normalized_checked(axis)
    IN  IF checked.is_some
        THEN LET normalized == checked.value
                 half == FDiv(angle, FAdd(One, One))
                 cos == Cos(half)
                 sin == Sin(half)
             IN  Quaternion_new(cos, FMul(normalized.x, sin), FMul(normalized.y, sin),
                                FMul(normalized.z, sin))
        ELSE Quaternion_identity

\* Quaternion_slerp that negates a negative dot and leaves other as it is.
Quaternion_slerp_DotOnly(self, other, progress) ==
    LET dot0 == Quaternion_dot(self, other)
        dot1 == IF Lt(dot0, Zero) THEN Neg(dot0) ELSE dot0
    IN  IF Le(One, dot1) THEN self
        ELSE LET dot == FMin(dot1, One)
                 omega == Acos(dot)
                 sin_omega == Sin(omega)
                 a == FDiv(Sin(FMul(FSub(One, progress), omega)), sin_omega)
                 b == FDiv(Sin(FMul(progress, omega)), sin_omega)
             IN  Quaternion_add(Quaternion_scale(self, a), Quaternion_scale(other, b))

Quaternion_slerp(self, other, progress) ==
    LET dot0 == Quaternion_dot(self, other)
        other1 == IF Lt(dot0, Zero) THEN Quaternion_neg(other) ELSE other
        dot1 == IF Lt(dot0, Zero) THEN Neg(dot0) ELSE dot0
    IN  IF Le(One, dot1) THEN self
        ELSE LET dot == FMin(dot1, One)
                 omega == Acos(dot)
                 sin_omega == Sin(omega)
                 a == FDiv(Sin(FMul(FSub(One, progress), omega)), sin_omega)
                 b == FDiv(Sin(FMul(progress, omega)), sin_omega)
             IN  Quaternion_add(Quaternion_scale(self, a), Quaternion_scale(other1, b))

(***************************************************************************)
(* Pose<T, R>                                                              *)
(***************************************************************************)
Pose_new(translation, rotation) == [translation |-> translation, rotation |-> rotation]

Pose_identity == Pose_new(Vector_zero, Quaternion_identity)

\* Pose_combine with the rotations multiplied in the other order.
Pose_combine_OtherFirst(self, other) ==
    LET translation == Vector_add(self.translation,
                                  Quaternion_rotate(self.rotation, other.translation))
        rotation == Quaternion_multiply(other.rotation, self.rotation)
    IN  Pose_new(translation, rotation)

\* Pose_combine that rotates other's translation by other's rotation.
Pose_combine_WrongFrame(self, other) ==
    LET translation == Vector_add(self.translation,
                                  Quaternion_rotate(other.rotation, other.translation))
        rotation == Quaternion_multiply(self.rotation, other.rotation)
    IN  Pose_new(translation, rotation)

Pose_combine(self, other) ==
    LET translation == Vector_add(self.translation,
                                  Quaternion_rotate(self.rotation, other.translation))
        rotation == Quaternion_multiply(self.rotation, other.rotation)
    IN  Pose_new(translation, rotation)

Pose_apply_to(self, other) ==
    Vector_add(self.translation, Quaternion_rotate(self.rotation, other))

\* Pose_inverse that negates the translation without rotating it back.
Pose_inverse_Unrotated(self) ==
    LET inverse_rotation == Quaternion_inverse(self.rotation)
    IN  Pose_new(Vector_neg(self.translation), inverse_rotation)

Pose_inverse(self) ==
    LET inverse_rotation == Quaternion_inverse(self.rotation)
    IN  Pose_new(Quaternion_rotate(inverse_rotation, Vector_neg(self.translation)),
                 inverse_rotation)

Pose_mul(self, other) == Pose_combine(self, other)

(***************************************************************************)
(* Inputs.  Each pool lists values of one type; a bound says how many of   *)
(* its entries the calls draw from.                                        *)
(***************************************************************************)
NumQuat == 5

NumVec == 3

NumScalar == 3

NumMag == 4

NumAngle == 4

NumProgress == 3

NumTrans == 3

NumChain == 3

MaxChain == 3

QuatPool ==
    << Quaternion_new(Ratio(1, 2), Ratio(1, 2), Ratio(1, 2), Ratio(1, 2)),
       Quaternion_new(Ratio(3, 5), Zero, Ratio(4, 5), Zero),
       Quaternion_new(One, One, Zero, Zero),
       Quaternion_new(Ratio(2, 3), Ratio(1, 3), Zero, Ratio(-2, 3)),
       Quaternion_new(Zero, Ratio(-1, 1), Ratio(2, 1), One),
       Quaternion_new(Ratio(1, 2), Ratio(-1, 2), Ratio(1, 2), Ratio(-1, 2)),
       Quaternion_new(Zero, Zero, Ratio(-3, 5), Ratio(4, 5)),
       Quaternion_new(Ratio(2, 1), Zero, One, Ratio(-1, 2)) >>

VecPool ==
    << Vector_new(One, Ratio(2, 1), Ratio(3, 1)),
       Vector_new(Ratio(-1, 1), Ratio(1, 2), Zero),
       Vector_new(Ratio(2, 1), Ratio(-1, 1), One),
       Vector_new(Zero, Ratio(-3, 2), Ratio(1, 3)),
       Vector_new(Ratio(-2, 1), Ratio(-2, 1), Ratio(5, 2)) >>

ScalarPool == << Ratio(2, 1), Zero, Ratio(-1, 2), Ratio(-3, 1), Ratio(1, 3) >>

TransPool ==
    << Vector_new(One, Ratio(2, 1), Ratio(3, 1)),
       Vector_zero,
       Vector_new(Ratio(-1, 2), Zero, Ratio(2, 1)),
       Vector_new(Zero, Ratio(1, 3), Ratio(-1, 1)),
       Vector_new(Ratio(3, 1), Ratio(-2, 1), Ratio(1, 2)) >>

\* Magnitudes of the components of the float vectors: values of the format, some
\* below Epsilon, some whose square underflows.
MagPool == << One, Ratio(1, 16), Ratio(3, 2), Ratio(1, 64), Ratio(3, 32), Ratio(5, 1) >>

AnglePool == << One, Ratio(3, 1), Zero, Ratio(-2, 1), Ratio(1, 2), Ratio(3, 2), Ratio(-1, 1) >>

ProgressPool == << Zero, One, Ratio(1, 2), Ratio(1, 4), Ratio(3, 4) >>

Min(a, b) == IF a < b THEN a ELSE b

Take(pool, n) == {pool[m] : m \in 1..Min(n, Len(pool))}

NormSq(q) == Add(Add(Add(Mul(q.w, q.w), Mul(q.i, q.i)), Mul(q.j, q.j)), Mul(q.k, q.k))

IsUnit(q) == NormSq(q) = One

Quaternions == Take(QuatPool, NumQuat) \cup {Quaternion_identity}

Halves == {Ratio(1, 2), Ratio(-1, 2)}

\* The 24 unit quaternions with integer or half-integer components.
HurwitzUnits ==
    {Quaternion_new(w, i, j, k) : w \in Halves, i \in Halves, j \in Halves, k \in Halves}
        \cup {Quaternion_new(s, Zero, Zero, Zero) : s \in {One, Neg(One)}}
        \cup {Quaternion_new(Zero, s, Zero, Zero) : s \in {One, Neg(One)}}
        \cup {Quaternion_new(Zero, Zero, s, Zero) : s \in {One, Neg(One)}}
        \cup {Quaternion_new(Zero, Zero, Zero, s) : s \in {One, Neg(One)}}

UnitQuaternions == {q \in Quaternions : IsUnit(q)} \cup HurwitzUnits

Vectors ==
    Take(VecPool, NumVec) \cup {Vector_zero, Vector_unit_x, Vector_unit_y, Vector_unit_z}

Scalars == Take(ScalarPool, NumScalar)

FloatComponents == {Zero} \cup Take(MagPool, NumMag) \cup {Neg(m) : m \in Take(MagPool, NumMag)}

FloatVectors ==
    {Vector_new(x, y, z) : x \in FloatComponents, y \in FloatComponents, z \in FloatComponents}

Angles == Take(AnglePool, NumAngle)

Progresses == Take(ProgressPool, NumProgress)

Poses == {Pose_new(t, q) : t \in Take(TransPool, NumTrans), q \in Quaternions}

UnitPoses == {Pose_new(t, q) : t \in Take(TransPool, NumTrans), q \in UnitQuaternions}

(***************************************************************************)
(* Calls.                                                                  *)
(***************************************************************************)
Init ==
    /\ op = "init"
    /\ args = <<>>
    /\ out = <<>>

\* first.combine(second).apply_to(vector)
CombineApply ==
    /\ op = "init"
    /\ \E P \in Poses, Q \in Poses, v \in Vectors :
        /\ op' = "combine_apply"
        /\ args' = <<P, Q, v>>
        /\ out' = Pose_apply_to(Pose_combine(P, Q), v)

\* pose * pose.inverse() and pose.inverse() * pose
InverseCombine ==
    /\ op = "init"
    /\ \E P \in UnitPoses :
        /\ op' = "inverse_combine"
        /\ args' = <<P>>
        /\ out' = <<Pose_mul(P, Pose_inverse(P)), Pose_mul(Pose_inverse(P), P)>>

\* (a * b) * c and a * (b * c)
CombineChain ==
    /\ op = "init"
    /\ \E A \in Poses, B \in Poses, C \in Poses :
        /\ op' = "combine_chain"
        /\ args' = <<A, B, C>>
        /\ out' = <<Pose_mul(Pose_mul(A, B), C), Pose_mul(A, Pose_mul(B, C))>>

NextPose == CombineApply \/ InverseCombine \/ CombineChain

SpecPose == Init /\ [][NextPose]_vars

\* C1: for all poses P, Q and every vector v, P.combine(Q).apply_to(v) equals
\* P.apply_to(Q.apply_to(v)).
CombineChainsTransforms ==
    op = "combine_apply" =>
        out = Pose_apply_to(args[1], Pose_apply_to(args[2], args[3]))

CombineChainsTransformsWitness ==
    /\ op = "combine_apply"
    /\ args[1].rotation # Quaternion_identity
    /\ args[2].rotation # Quaternion_identity
    /\ args[2].translation # Vector_zero
    /\ out # args[3]
    /\ out # Pose_apply_to(args[1], args[3])

\* C2: for every pose P whose rotation is a unit quaternion, P.combine(P.inverse())
\* and P.inverse().combine(P) are both the identity pose.
InverseIsTwoSided ==
    op = "inverse_combine" =>
        /\ out[1] = Pose_identity
        /\ out[2] = Pose_identity

InverseIsTwoSidedWitness ==
    /\ op = "inverse_combine"
    /\ args[1].translation # Vector_zero
    /\ args[1].rotation # Quaternion_identity
    /\ args[1].rotation.w # Zero
    /\ Pose_inverse(args[1]) # args[1]
    /\ out = <<Pose_identity, Pose_identity>>

\* C3: for all poses A, B, C, A.combine(B).combine(C) equals
\* A.combine(B.combine(C)); combine is not commutative (the witness is a pair
\* A, B with A.combine(B) different from B.combine(A)).
CombineAssociative ==
    op = "combine_chain" => out[1] = out[2]

CombineAssociativeWitness ==
    /\ op = "combine_chain"
    /\ out[1] = out[2]
    /\ Pose_combine(args[1], args[2]) # Pose_combine(args[2], args[1])
    /\ Pose_combine(args[1], args[2]).rotation
           # Pose_combine(args[2], args[1]).rotation
    /\ args[3] # Pose_identity

\* q.inverse().rotate(q.rotate(v))
RotateBack ==
    /\ op = "init"
    /\ \E q \in UnitQuaternions, v \in Vectors :
        /\ op' = "rotate_back"
        /\ args' = <<q, v>>
        /\ out' = Quaternion_rotate(Quaternion_inverse(q), Quaternion_rotate(q, v))

\* (a * b).rotate(v), identity() * a and a * identity()
MultiplyRotate ==
    /\ op = "init"
    /\ \E a \in Quaternions, b \in Quaternions, v \in Vectors :
        /\ op' = "multiply_rotate"
        /\ args' = <<a, b, v>>
        /\ out' = <<Quaternion_rotate(Quaternion_mul(a, b), v),
                    Quaternion_mul(Quaternion_identity, a),
                    Quaternion_mul(a, Quaternion_identity)>>

\* q * p * q.inverse() for the pure quaternion p of v
Conjugate ==
    /\ op = "init"
    /\ \E q \in UnitQuaternions, v \in Vectors :
        /\ op' = "conjugate"
        /\ args' = <<q, v>>
        /\ out' = Quaternion_mul(Quaternion_mul(q, Quaternion_new(Zero, v.x, v.y, v.z)),
                                 Quaternion_inverse(q))

\* a.cross(b), b drawn from the vectors and from the multiples of a
Cross ==
    /\ op = "init"
    /\ \E a \in Vectors :
         \E b \in Vectors \cup {Vector_mul(a, s) : s \in Scalars} :
            /\ op' = "cross"
            /\ args' = <<a, b>>
            /\ out' = Vector_cross(a, b)

NextAlgebra == RotateBack \/ MultiplyRotate \/ Conjugate \/ Cross

SpecAlgebra == Init /\ [][NextAlgebra]_vars

Parallel(a, b) ==
    \E s \in Scalars \cup {Zero} : b = Vector_mul(a, s) \/ a = Vector_mul(b, s)

\* C4: for every unit quaternion q and every vector v,
\* q.inverse().rotate(q.rotate(v)) equals v.
RotationRoundTrip ==
    op = "rotate_back" => out = args[2]

RotationRoundTripWitness ==
    /\ op = "rotate_back"
    /\ Quaternion_rotate(args[1], args[2]) # args[2]
    /\ Quaternion_inverse(args[1]) # args[1]
    /\ \A c \in {args[1].w, args[1].i, args[1].j, args[1].k} : c # Zero
    /\ out = args[2]

\* C8: for all vectors a, b, a.cross(b) equals -(b.cross(a)); a.cross(b) is the
\* zero vector whenever a and b are parallel (one is a scalar multiple of the
\* other, a or b zero included); unit_x().cross(unit_y()) equals unit_z().
CrossProduct ==
    op = "cross" =>
        /\ out = Vector_neg(Vector_cross(args[2], args[1]))
        /\ Parallel(args[1], args[2]) => out = Vector_zero
        /\ (args[1] = Vector_unit_x /\ args[2] = Vector_unit_y) => out = Vector_unit_z

CrossProductWitness ==
    /\ op = "cross"
    /\ args[1] # Vector_zero
    /\ args[2] # Vector_zero
    /\ args[1] # args[2]
    /\ Parallel(args[1], args[2])
    /\ out = Vector_zero

\* C9: for all quaternions a, b and every vector v, a.multiply(b).rotate(v)
\* equals a.rotate(b.rotate(v)); identity() is a two-sided unit of multiply;
\* multiply is not commutative (the witness is a pair a, b with a*b # b*a).
MultiplyComposes ==
    op = "multiply_rotate" =>
        /\ out[1] = Quaternion_rotate(args[1], Quaternion_rotate(args[2], args[3]))
        /\ out[2] = args[1]
        /\ out[3] = args[1]

MultiplyComposesWitness ==
    /\ op = "multiply_rotate"
    /\ Quaternion_multiply(args[1], args[2]) # Quaternion_multiply(args[2], args[1])
    /\ out[1] # Quaternion_rotate(args[2], Quaternion_rotate(args[1], args[3]))
    /\ out[1] = Quaternion_rotate(args[1], Quaternion_rotate(args[2], args[3]))

\* C10: for every unit quaternion q and vector v = (x, y, z), q.rotate(v) equals
\* the (i, j, k) part of q.multiply(p).multiply(q.inverse()), p the pure
\* quaternion (0, x, y, z), and the w part of that product is 0.
RotateIsConjugation ==
    op = "conjugate" =>
        /\ out.w = Zero
        /\ Quaternion_rotate(args[1], args[2]) = Vector_new(out.i, out.j, out.k)

RotateIsConjugationWitness ==
    /\ op = "conjugate"
    /\ \A c \in {args[1].w, args[1].i, args[1].j, args[1].k} : c # Zero
    /\ \A c \in {args[2].x, args[2].y, args[2].z} : c # Zero
    /\ Vector_new(out.i, out.j, out.k) # args[2]
    /\ out.w = Zero

\* v.normalized_checked()
NormalizedChecked ==
    /\ op = "init"
    /\ \E v \in FloatVectors :
        /\ op' = "normalized_checked"
        /\ args' = <<v>>
        /\ out' = Vector_normalized_checked(v)

\* Quaternion::from_angle_axis(angle, axis)
FromAngleAxis ==
    /\ op = "init"
    /\ \E angle \in Angles, axis \in FloatVectors :
        /\ op' = "from_angle_axis"
        /\ args' = <<angle, axis>>
        /\ out' = Quaternion_from_angle_axis(angle, axis)

\* a.slerp(b, progress)
Slerp ==
    /\ op = "init"
    /\ \E a \in HurwitzUnits, b \in HurwitzUnits, progress \in Progresses :
        /\ op' = "slerp"
        /\ args' = <<a, b, progress>>
        /\ out' = Quaternion_slerp(a, b, progress)

NextFloat == NormalizedChecked \/ FromAngleAxis \/ Slerp

SpecFloat == Init /\ [][NextFloat]_vars

\* The poses a chain is built from: unit rotations, each with a translation.
ChainPool ==
    << Pose_new(Vector_new(One, Ratio(2, 1), Ratio(3, 1)),
                Quaternion_new(Ratio(1, 2), Ratio(1, 2), Ratio(1, 2), Ratio(1, 2))),
       Pose_new(Vector_new(Ratio(-1, 1), Zero, Ratio(2, 1)),
                Quaternion_new(Ratio(2, 3), Ratio(1, 3), Zero, Ratio(-2, 3))),
       Pose_new(Vector_zero, Quaternion_new(Zero, Zero, Ratio(-1, 1), Zero)),
       Pose_new(Vector_new(Zero, One, Ratio(-1, 1)),
                Quaternion_new(Ratio(1, 2), Ratio(-1, 2), Ratio(1, 2), Ratio(-1, 2))),
       Pose_new(Vector_new(Ratio(2, 1), Zero, Zero),
                Quaternion_new(Zero, Ratio(4, 5), Zero, Ratio(-3, 5))) >>

ChainPoses == Take(ChainPool, NumChain)

InverseStep == [inverse |-> TRUE]

\* The first pose of a chain: Pose::identity() or one of the unit poses.
ChainStart ==
    /\ op = "init"
    /\ \E P \in ChainPoses \cup {Pose_identity} :
        /\ op' = "chain"
        /\ args' = <<>>
        /\ out' = P

\* pose = pose.combine(other)
ChainCombine ==
    /\ op = "chain"
    /\ Len(args) < MaxChain
    /\ \E Q \in ChainPoses :
        /\ op' = "chain"
        /\ args' = Append(args, Q)
        /\ out' = Pose_combine(out, Q)

\* pose = pose.inverse()
ChainInverse ==
    /\ op = "chain"
    /\ Len(args) < MaxChain
    /\ op' = "chain"
    /\ args' = Append(args, InverseStep)
    /\ out' = Pose_inverse(out)

\* a.multiply(b)
Multiply ==
    /\ op = "init"
    /\ \E a \in Quaternions, b \in Quaternions :
        /\ op' = "multiply"
        /\ args' = <<a, b>>
        /\ out' = Quaternion_multiply(a, b)

NextChain == ChainStart \/ ChainCombine \/ ChainInverse \/ Multiply

SpecChain == Init /\ [][NextChain]_vars

\* C11: starting from poses whose rotations are unit quaternions (Pose::identity()
\* included), after any sequence of Pose::combine and Pose::inverse the rotation
\* still satisfies w^2 + i^2 + j^2 + k^2 = 1; and the squared norm of
\* a.multiply(b) is the product of the squared norms of a and b.
UnitNormPreserved ==
    /\ op = "chain" => NormSq(out.rotation) = One
    /\ op = "multiply" => NormSq(out) = Mul(NormSq(args[1]), NormSq(args[2]))

UnitNormPreservedWitness ==
    /\ op = "chain"
    /\ Len(args) >= 3
    /\ args[1] # InverseStep
    /\ args[2] = InverseStep
    /\ args[3] # InverseStep
    /\ args[1] # args[3]
    /\ \A c \in {out.rotation.w, out.rotation.i, out.rotation.j, out.rotation.k} :
           c # Zero /\ c[2] > 2
    /\ NormSq(out.rotation) = One

Next == NextPose \/ NextAlgebra \/ NextFloat \/ NextChain

Spec == Init /\ [][Next]_vars

Tolerance == Ratio(1, 1000)

\* C5, as claimed: a.slerp(b, 0) equals a, and the dot product of a.slerp(b, 1)
\* with b is greater than 1 - 1e-3, also when dot(a, b) is negative.
SlerpReachesOther ==
    op = "slerp" =>
        /\ args[3] = Zero => out = args[1]
        /\ args[3] = One => Lt(Sub(One, Tolerance), Quaternion_dot(out, args[2]))

\* C5, amended: a.slerp(b, 0) equals a; a.slerp(b, 1) is b when dot(a, b) >= 0
\* (its dot product with b is greater than 1 - 1e-3) and is -b, the same rotation,
\* when dot(a, b) < 0 (its dot product with b is less than -(1 - 1e-3)).
SlerpReachesEndpoints ==
    op = "slerp" =>
        /\ args[3] = Zero => out = args[1]
        /\ (args[3] = One /\ ~Lt(Quaternion_dot(args[1], args[2]), Zero)) =>
            /\ out = args[2]
            /\ Lt(Sub(One, Tolerance), Quaternion_dot(out, args[2]))
        /\ (args[3] = One /\ Lt(Quaternion_dot(args[1], args[2]), Zero)) =>
            /\ out = Quaternion_neg(args[2])
            /\ Lt(Quaternion_dot(out, args[2]), Neg(Sub(One, Tolerance)))

SlerpReachesEndpointsWitness ==
    /\ op = "slerp"
    /\ args[3] = One
    /\ Lt(Quaternion_dot(args[1], args[2]), Zero)
    /\ Lt(Neg(One), Quaternion_dot(args[1], args[2]))
    /\ out = Quaternion_neg(args[2])

NearOne(x) == Le(Sub(One, Epsilon), x) /\ Le(x, Add(One, Epsilon))

\* C6, as claimed: v.normalized_checked() is None exactly for the zero vector.
NoneOnlyForZero ==
    op = "normalized_checked" => (out = None <=> args[1] = Vector_zero)

\* C6, amended: v.normalized_checked() is None exactly when v.norm() is below
\* epsilon, which holds for the zero vector and for nonzero vectors of small norm;
\* otherwise it is Some(u) with u = v / v.norm() and u.norm() within epsilon of 1.
NoneBelowEpsilon ==
    op = "normalized_checked" =>
        /\ out = None <=> Lt(Vector_norm(args[1]), Epsilon)
        /\ args[1] = Vector_zero => out = None
        /\ out # None =>
            /\ out = Some(Vector_div(args[1], Vector_norm(args[1])))
            /\ NearOne(Vector_norm(out.value))

NoneBelowEpsilonWitness ==
    /\ op = "normalized_checked"
    /\ args[1] # Vector_zero
    /\ Vector_norm(args[1]) # Zero
    /\ out = None

\* C7: from_angle_axis(angle, axis) is identity() whenever axis.normalized_checked()
\* is None, whatever the angle; otherwise w = cos(angle / 2) and
\* (i, j, k) = normalized axis * sin(angle / 2).
DegenerateAxisIsIdentity ==
    op = "from_angle_axis" =>
        LET checked == Vector_normalized_checked(args[2])
            half == FDiv(args[1], <<2, 1>>)
        IN  IF checked = None
            THEN out = Quaternion_new(One, Zero, Zero, Zero)
            ELSE /\ out.w = Cos(half)
                 /\ Vector_new(out.i, out.j, out.k) =
                        Vector_new(FMul(checked.value.x, Sin(half)),
                                   FMul(checked.value.y, Sin(half)),
                                   FMul(checked.value.z, Sin(half)))

DegenerateAxisIsIdentityWitness ==
    /\ op = "from_angle_axis"
    /\ args[1] # Zero
    /\ args[2] # Vector_zero
    /\ Vector_normalized_checked(args[2]) = None
    /\ out = Quaternion_identity

====
